---- MODULE Spec2Model ----
(***************************************************************************)
(* Envelope codec of the shamir file splitter (src/src/wrapper.rs) and the *)
(* demo scenario of src/src/main.rs.                                       *)
(*                                                                         *)
(* to_shares encrypts a file once, puts {length, shares, hash, key, nonce} *)
(* in a ShareInfo record, splits the serialized record with Shamir's       *)
(* scheme over GF(256) and packages every raw share with a copy of the     *)
(* ciphertext.  from_shares reverses it.                                   *)
(*                                                                         *)
(* The module `shamir` (SecretData) is declared by main.rs:9 but its file  *)
(* is not part of the sources at hand: GF(256), with_secret, get_share and *)
(* recover_secret follow sections 4.1 - 4.3 of the specification, inside   *)
(* the call signatures that wrapper.rs fixes.  The external crates         *)
(* (bincode, sha3, aes-gcm, rand) are modelled by small stand-ins that     *)
(* keep their wire sizes and their success / failure behaviour.            *)
(***************************************************************************)
EXTENDS Integers, Sequences, FiniteSets, TLC

VARIABLES pc, input, threshold, count, rng, shares, given, result

vars == <<pc, input, threshold, count, rng, shares, given, result>>

(***************************************************************************)
(* Bounds of the model                                                     *)
(***************************************************************************)
\* threshold and count (u8 in the code) range over 0..MaxCount
MaxCount == 3
\* the inputs are the prefixes of main's test data of length 0..MaxInputLen
MaxInputLen == 1
\* the outcomes of the random number generator are numbered 0..MaxRng
MaxRng == 3

(***************************************************************************)
(* Program constants                                                       *)
(***************************************************************************)
\* bincode writes a usize as 8 little-endian bytes (ShareInfo.length)
LengthLen == 8
\* ShareInfo.hash: [u8; 32]
HashLen == 32
\* ShareInfo.key: [u8; 32]
KeyLen == 32
\* ShareInfo.nonce: [u8; 12]
NonceLen == 12
\* AES-GCM appends a 16 byte authentication tag to the ciphertext
TagLen == 16
\* main: create_verifyable_shares(.., 3, 5)
MainThreshold == 3
MainCount == 5

\* "Test Data Helloa" (main.rs:140)
TestData == <<84, 101, 115, 116, 32, 68, 97, 116, 97, 32, 72, 101, 108, 108, 111, 97>>

\* serialized ShareInfo: length, shares (one byte), hash, key, nonce
InfoLen == LengthLen + 1 + HashLen + KeyLen + NonceLen

Ok(v) == [ok |-> TRUE, val |-> v, err |-> ""]
Err(e) == [ok |-> FALSE, val |-> <<>>, err |-> e]

Range(s) == {s[i] : i \in 1..Len(s)}

(***************************************************************************)
(* Field Arithmetic Engine: GF(256), generator 3, polynomial 0x11b         *)
(***************************************************************************)
RECURSIVE XorBits(_, _, _)
XorBits(a, b, n) ==
  IF n = 0 THEN 0
  ELSE (((a % 2) + (b % 2)) % 2) + 2 * XorBits(a \div 2, b \div 2, n - 1)

XorTable == [a \in 0..255 |-> [b \in 0..255 |-> XorBits(a, b, 8)]]

\* antilog table: GF256_EXP[i + 1] = 3^i
GF256_EXP ==
  <<
    1, 3, 5, 15, 17, 51, 85, 255, 26, 46, 114, 150, 161, 248, 19, 53,
    95, 225, 56, 72, 216, 115, 149, 164, 247, 2, 6, 10, 30, 34, 102, 170,
    229, 52, 92, 228, 55, 89, 235, 38, 106, 190, 217, 112, 144, 171, 230, 49,
    83, 245, 4, 12, 20, 60, 68, 204, 79, 209, 104, 184, 211, 110, 178, 205,
    76, 212, 103, 169, 224, 59, 77, 215, 98, 166, 241, 8, 24, 40, 120, 136,
    131, 158, 185, 208, 107, 189, 220, 127, 129, 152, 179, 206, 73, 219, 118, 154,
    181, 196, 87, 249, 16, 48, 80, 240, 11, 29, 39, 105, 187, 214, 97, 163,
    254, 25, 43, 125, 135, 146, 173, 236, 47, 113, 147, 174, 233, 32, 96, 160,
    251, 22, 58, 78, 210, 109, 183, 194, 93, 231, 50, 86, 250, 21, 63, 65,
    195, 94, 226, 61, 71, 201, 64, 192, 91, 237, 44, 116, 156, 191, 218, 117,
    159, 186, 213, 100, 172, 239, 42, 126, 130, 157, 188, 223, 122, 142, 137, 128,
    155, 182, 193, 88, 232, 35, 101, 175, 234, 37, 111, 177, 200, 67, 197, 84,
    252, 31, 33, 99, 165, 244, 7, 9, 27, 45, 119, 153, 176, 203, 70, 202,
    69, 207, 74, 222, 121, 139, 134, 145, 168, 227, 62, 66, 198, 81, 243, 14,
    18, 54, 90, 238, 41, 123, 141, 140, 143, 138, 133, 148, 167, 242, 13, 23,
    57, 75, 221, 124, 132, 151, 162, 253, 28, 36, 108, 180, 199, 82, 246 >>

\* log table: GF256_LOG[a] = i with 3^i = a, for a in 1..255
GF256_LOG ==
  <<
    0, 25, 1, 50, 2, 26, 198, 75, 199, 27, 104, 51, 238, 223, 3, 100,
    4, 224, 14, 52, 141, 129, 239, 76, 113, 8, 200, 248, 105, 28, 193, 125,
    194, 29, 181, 249, 185, 39, 106, 77, 228, 166, 114, 154, 201, 9, 120, 101,
    47, 138, 5, 33, 15, 225, 36, 18, 240, 130, 69, 53, 147, 218, 142, 150,
    143, 219, 189, 54, 208, 206, 148, 19, 92, 210, 241, 64, 70, 131, 56, 102,
    221, 253, 48, 191, 6, 139, 98, 179, 37, 226, 152, 34, 136, 145, 16, 126,
    110, 72, 195, 163, 182, 30, 66, 58, 107, 40, 84, 250, 133, 61, 186, 43,
    121, 10, 21, 155, 159, 94, 202, 78, 212, 172, 229, 243, 115, 167, 87, 175,
    88, 168, 80, 244, 234, 214, 116, 79, 174, 233, 213, 231, 230, 173, 232, 44,
    215, 117, 122, 235, 22, 11, 245, 89, 203, 95, 176, 156, 169, 81, 160, 127,
    12, 246, 111, 23, 196, 73, 236, 216, 67, 31, 45, 164, 118, 123, 183, 204,
    187, 62, 90, 251, 96, 177, 134, 59, 82, 161, 108, 170, 85, 41, 157, 151,
    178, 135, 144, 97, 190, 220, 252, 188, 149, 207, 205, 55, 63, 91, 209, 83,
    57, 132, 60, 65, 162, 109, 71, 20, 42, 158, 93, 86, 242, 211, 171, 68,
    17, 146, 217, 35, 32, 46, 137, 180, 124, 184, 38, 119, 153, 227, 165, 103,
    74, 237, 222, 197, 49, 254, 24, 13, 99, 140, 128, 192, 247, 112, 7 >>

\* add = bitwise exclusive-or (subtraction is the same operation)
gf_add(a, b) == XorTable[a][b]

gf_mul(a, b) ==
  IF a = 0 \/ b = 0 THEN 0
  ELSE GF256_EXP[((GF256_LOG[a] + GF256_LOG[b]) % 255) + 1]

\* DivisionByZero when b = 0
gf_div(a, b) ==
  IF b = 0 THEN Err("DivisionByZero")
  ELSE IF a = 0 THEN Ok(0)
  ELSE Ok(GF256_EXP[((GF256_LOG[a] + 255 - GF256_LOG[b]) % 255) + 1])

\* exclusive-or of f[lo], ..., f[hi] (0 when lo > hi)
RECURSIVE XorSum(_, _, _)
XorSum(f, lo, hi) ==
  IF lo > hi THEN 0 ELSE gf_add(f[lo], XorSum(f, lo + 1, hi))

\* product in GF(256) of f[lo], ..., f[hi] (1 when lo > hi)
RECURSIVE GfProduct(_, _, _)
GfProduct(f, lo, hi) ==
  IF lo > hi THEN 1 ELSE gf_mul(f[lo], GfProduct(f, lo + 1, hi))

\* integer sum of f[lo], ..., f[hi], by halving
RECURSIVE Sum(_, _, _)
Sum(f, lo, hi) ==
  IF lo > hi THEN 0
  ELSE IF lo = hi THEN f[lo]
  ELSE LET mid == (lo + hi) \div 2
       IN Sum(f, lo, mid) + Sum(f, mid + 1, hi)

(***************************************************************************)
(* rand::thread_rng: the draws of one to_shares call.  Outcome r fixes the *)
(* key, the nonce and the polynomial coefficients; the outcomes are a few  *)
(* of the values a uniform generator can return:                           *)
(*   r = 1      the coefficients are nonzero in the hash field only        *)
(*   r = 2      the coefficients are nonzero in length and shares only     *)
(*   r = 3      every coefficient is 0                                     *)
(*   otherwise  every coefficient is nonzero                               *)
(***************************************************************************)
rng_key(r) == [i \in 1..KeyLen |-> (37 * r + 11 * i + 5) % 256]

rng_nonce(r) == [i \in 1..NonceLen |-> (53 * r + 29 * i + 1) % 256]

InHashField(p) == p > LengthLen + 1 /\ p <= LengthLen + 1 + HashLen

rng_coefficient(r, p, j) ==
  LET v == ((31 * r + 7 * p + 13 * j) % 255) + 1
  IN IF r = 1 THEN (IF InHashField(p) THEN v ELSE 0)
     ELSE IF r = 2 THEN (IF p <= LengthLen + 1 THEN v ELSE 0)
     ELSE IF r = 3 THEN 0
     ELSE v

\* the randomness of one call: coefficients[p][j] is the j-th coefficient
\* drawn for byte p of the secret (a u8 threshold draws at most 254)
RngOutcome(r) ==
  [key |-> rng_key(r),
   nonce |-> rng_nonce(r),
   coefficients |-> [p \in 1..InfoLen |-> [j \in 1..254 |-> rng_coefficient(r, p, j)]]]

(***************************************************************************)
(* Secret Splitter and Secret Recoverer (module shamir, SecretData)        *)
(***************************************************************************)
\* one polynomial per byte: constant term the byte, threshold - 1 random
\* coefficients.  with_secret returns a SecretData, not a Result.
with_secret(secret, t, random) ==
  [threshold |-> t,
   coefficients |->
     [p \in 1..Len(secret) |->
        [k \in 1..(IF t > 1 THEN t ELSE 1) |->
           IF k = 1 THEN secret[p] ELSE random[p][k - 1]]]]

\* Horner's rule: c[k] + x * (c[k + 1] + x * ( ... ))
RECURSIVE Horner(_, _, _)
Horner(c, x, k) ==
  IF k > Len(c) THEN 0 ELSE gf_add(c[k], gf_mul(x, Horner(c, x, k + 1)))

\* the raw share of index id: the index byte, then one evaluated byte per
\* byte of the secret.  Index 0 and threshold 0 are InvalidParameters.
get_share(secret_data, id) ==
  IF id = 0 \/ secret_data.threshold = 0 THEN Err("InvalidParameters")
  ELSE Ok(<<id>> \o [p \in 1..Len(secret_data.coefficients) |->
                       Horner(secret_data.coefficients[p], id, 1)])

\* L_i(0) = product over j # i of x_j / (x_i - x_j)
LagrangeBasis(xs, i) ==
  GfProduct([j \in 1..Len(xs) |->
               IF j = i THEN 1 ELSE gf_div(xs[j], gf_add(xs[i], xs[j])).val],
            1, Len(xs))

\* Lagrange interpolation at x = 0, byte position by byte position
recover_secret(raw) ==
  LET k == Len(raw)
      xs == [i \in 1..k |-> raw[i][1]]
      basis == [i \in 1..k |-> LagrangeBasis(xs, i)]
  IN IF k = 0 THEN Err("NoShares")
     ELSE IF \E i \in 1..k : Len(raw[i]) = 0 \/ Len(raw[i]) # Len(raw[1])
       THEN Err("LengthMismatch")
     ELSE IF \E i, j \in 1..k : i < j /\ xs[i] = xs[j]
       THEN Err("DuplicateIndex")
     ELSE Ok([p \in 1..(Len(raw[1]) - 1) |->
                XorSum([i \in 1..k |-> gf_mul(raw[i][p + 1], basis[i])], 1, k)])

(***************************************************************************)
(* bincode (fixed-width little-endian integers, length-prefixed Vec<u8>)   *)
(***************************************************************************)
\* a usize as 8 bytes; the model's lengths stay below 2^24
LittleEndian(n) ==
  [i \in 1..LengthLen |->
     IF i = 1 THEN n % 256
     ELSE IF i = 2 THEN (n \div 256) % 256
     ELSE IF i = 3 THEN (n \div 65536) % 256
     ELSE 0]

\* values of 2^24 and more are all read as 2^24: no buffer is that long
LittleEndianValue(bs) ==
  IF \E i \in 4..LengthLen : bs[i] # 0 THEN 256 * 65536
  ELSE bs[1] + 256 * bs[2] + 65536 * bs[3]

\* bincode::serialize(&info): the fields in declaration order, no padding
serialize_info(info) ==
  LittleEndian(info.length) \o <<info.shares>> \o info.hash \o info.key \o info.nonce

\* bincode::deserialize::<ShareInfo>: fails on fewer than InfoLen bytes
deserialize_info(bs) ==
  IF Len(bs) < InfoLen THEN Err("deserialize")
  ELSE Ok([length |-> LittleEndianValue(SubSeq(bs, 1, LengthLen)),
           shares |-> bs[LengthLen + 1],
           hash |-> SubSeq(bs, LengthLen + 2, LengthLen + 1 + HashLen),
           key |-> SubSeq(bs, LengthLen + HashLen + 2, LengthLen + 1 + HashLen + KeyLen),
           nonce |-> SubSeq(bs, LengthLen + HashLen + KeyLen + 2, InfoLen)])

\* bincode::serialize(&share): length and bytes of info, then of data
serialize_share(share) ==
  LittleEndian(Len(share.info)) \o share.info
    \o LittleEndian(Len(share.data)) \o share.data

\* bincode::deserialize::<Share>: fails when a length runs past the buffer
deserialize_share(bs) ==
  IF Len(bs) < LengthLen THEN Err("deserialize")
  ELSE LET li == LittleEndianValue(SubSeq(bs, 1, LengthLen))
       IN IF Len(bs) < 2 * LengthLen + li THEN Err("deserialize")
          ELSE LET ld == LittleEndianValue(SubSeq(bs, LengthLen + li + 1, 2 * LengthLen + li))
               IN IF Len(bs) < 2 * LengthLen + li + ld THEN Err("deserialize")
                  ELSE Ok([info |-> SubSeq(bs, LengthLen + 1, LengthLen + li),
                           data |-> SubSeq(bs, 2 * LengthLen + li + 1,
                                           2 * LengthLen + li + ld)])

(***************************************************************************)
(* Stand-ins for SHA3-256 and AES-256-GCM: a 32 byte digest of the whole   *)
(* message, a keystream cipher with a 16 byte tag over key, nonce and      *)
(* plaintext.                                                              *)
(***************************************************************************)
Sha3_256_digest(m) ==
  [j \in 1..HashLen |->
     (131 * j + 17 * Len(m)
        + Sum([i \in 1..Len(m) |-> (i + j) * (m[i] + 1)], 1, Len(m))) % 256]

keystream(key, nonce, i) ==
  (key[((i - 1) % KeyLen) + 1] + nonce[((i - 1) % NonceLen) + 1] + i) % 256

gcm_tag(key, nonce, pt) ==
  [j \in 1..TagLen |->
     (3 * key[j] + 5 * key[j + TagLen] + 7 * nonce[((j - 1) % NonceLen) + 1] + j
        + Sum([i \in 1..Len(pt) |-> (2 * (i + j) + 1) * (pt[i] + 1)], 1, Len(pt))) % 256]

\* cipher.encrypt(&nonce, plaintext): ciphertext followed by the tag
aes_gcm_encrypt(key, nonce, pt) ==
  Ok([i \in 1..Len(pt) |-> (pt[i] + keystream(key, nonce, i)) % 256]
       \o gcm_tag(key, nonce, pt))

\* cipher.decrypt(&nonce, ciphertext): fails unless the tag verifies
aes_gcm_decrypt(key, nonce, ct) ==
  IF Len(ct) < TagLen THEN Err("aead")
  ELSE LET n == Len(ct) - TagLen
           pt == [i \in 1..n |-> (ct[i] + 256 - keystream(key, nonce, i)) % 256]
       IN IF \A j \in 1..TagLen : gcm_tag(key, nonce, pt)[j] = ct[n + j]
            THEN Ok(pt)
            ELSE Err("aead")

(***************************************************************************)
(* wrapper.rs                                                              *)
(***************************************************************************)
\* create_raw_shares with the loop for i in 1..count
create_raw_shares_exclusive(inp, t, n, random) ==
  LET secret_data == with_secret(inp, t, random)
      got == [i \in 1..(n - 1) |-> get_share(secret_data, i)]
  IN IF \E i \in 1..(n - 1) : ~got[i].ok
       THEN Err(got[CHOOSE i \in 1..(n - 1) :
                      ~got[i].ok /\ \A j \in 1..(i - 1) : got[j].ok].err)
       ELSE Ok([i \in 1..(n - 1) |-> got[i].val])

\* create_raw_shares with threshold and count exchanged in with_secret
create_raw_shares_swapped(inp, t, n, random) ==
  LET secret_data == with_secret(inp, n, random)
      got == [i \in 1..n |-> get_share(secret_data, i)]
  IN IF \E i \in 1..n : ~got[i].ok
       THEN Err(got[CHOOSE i \in 1..n :
                      ~got[i].ok /\ \A j \in 1..(i - 1) : got[j].ok].err)
       ELSE Ok([i \in 1..n |-> got[i].val])

\* for i in 1..=count { shares.push(secret_data.get_share(i)?) }
create_raw_shares(inp, t, n, random) ==
  LET secret_data == with_secret(inp, t, random)
      got == [i \in 1..n |-> get_share(secret_data, i)]
  IN IF \E i \in 1..n : ~got[i].ok
       THEN Err(got[CHOOSE i \in 1..n :
                      ~got[i].ok /\ \A j \in 1..(i - 1) : got[j].ok].err)
       ELSE Ok([i \in 1..n |-> got[i].val])

\* to_shares packaging info_serialized itself in the place of
\* unverifyable_shares[i]
to_shares_info_in_clear(inp, t, n, random) ==
  LET key == random.key
      nonce == random.nonce
      info == [length |-> Len(inp),
               shares |-> n,
               hash |-> Sha3_256_digest(inp),
               key |-> key,
               nonce |-> nonce]
      info_serialized == serialize_info(info)
      unverifyable_shares == create_raw_shares(info_serialized, t, n, random.coefficients)
      ciphertext == aes_gcm_encrypt(key, nonce, inp)
  IN IF ~unverifyable_shares.ok THEN Err(unverifyable_shares.err)
     ELSE IF ~ciphertext.ok THEN Err("Encryption failed")
     ELSE IF Len(unverifyable_shares.val) < n THEN Err("panic: index out of bounds")
     ELSE Ok([i \in 1..n |->
                serialize_share([info |-> info_serialized,
                                 data |-> ciphertext.val])])

\* random: the key, the nonce and the coefficients thread_rng returns
to_shares(inp, t, n, random) ==
  LET key == random.key
      nonce == random.nonce
      info == [length |-> Len(inp),
               shares |-> n,
               hash |-> Sha3_256_digest(inp),
               key |-> key,
               nonce |-> nonce]
      info_serialized == serialize_info(info)
      unverifyable_shares == create_raw_shares(info_serialized, t, n, random.coefficients)
      ciphertext == aes_gcm_encrypt(key, nonce, inp)
  IN IF ~unverifyable_shares.ok THEN Err(unverifyable_shares.err)
     ELSE IF ~ciphertext.ok THEN Err("Encryption failed")
     ELSE IF Len(unverifyable_shares.val) < n THEN Err("panic: index out of bounds")
     ELSE Ok([i \in 1..n |->
                serialize_share([info |-> unverifyable_shares.val[i],
                                 data |-> ciphertext.val])])

\* the result of from_shares, with the step that returned
Return(step, r) == [ok |-> r.ok, val |-> r.val, err |-> r.err, step |-> step]

\* for share in input { shares.push(bincode::deserialize(&share)?) }
deserialize_all(inp) ==
  LET got == [i \in 1..Len(inp) |-> deserialize_share(inp[i])]
  IN IF \E i \in 1..Len(inp) : ~got[i].ok
       THEN Err("deserialize")
       ELSE Ok([i \in 1..Len(inp) |-> got[i].val])

\* data_mismatch comparing the lengths of the data only
data_mismatch_lengths(sh) ==
  LET encrypted_data == sh[1].data
  IN \E i \in 1..Len(sh) : Len(sh[i].data) # Len(encrypted_data)

\* some share's data differs from the copy of shares[0].data
data_mismatch(sh) ==
  LET encrypted_data == sh[1].data
  IN \E i \in 1..Len(sh) : sh[i].data # encrypted_data

\* open_envelope hashing the ciphertext in place of the plaintext
open_envelope_hash_of_data(sh, encrypted_data) ==
  LET decrypted == recover_secret([i \in 1..Len(sh) |-> sh[i].info])
  IN IF ~decrypted.ok THEN Return("recover", decrypted)
     ELSE LET info == deserialize_info(decrypted.val)
          IN IF ~info.ok THEN Return("info", info)
             ELSE LET plaintext == aes_gcm_decrypt(info.val.key, info.val.nonce,
                                                  encrypted_data)
                  IN IF ~plaintext.ok
                       THEN Return("decrypt", Err("Decryption failed"))
                     ELSE IF info.val.hash # Sha3_256_digest(encrypted_data)
                       THEN Return("hash", Err("Hashes do not match"))
                     ELSE Return("ok", Ok(plaintext.val))

\* open_envelope without the comparison of the hashes
open_envelope_no_hash_check(sh, encrypted_data) ==
  LET decrypted == recover_secret([i \in 1..Len(sh) |-> sh[i].info])
  IN IF ~decrypted.ok THEN Return("recover", decrypted)
     ELSE LET info == deserialize_info(decrypted.val)
          IN IF ~info.ok THEN Return("info", info)
             ELSE LET plaintext == aes_gcm_decrypt(info.val.key, info.val.nonce,
                                                  encrypted_data)
                  IN IF ~plaintext.ok
                       THEN Return("decrypt", Err("Decryption failed"))
                     ELSE Return("ok", Ok(plaintext.val))

\* open_envelope with the decryption error dropped (unwrap_or_default)
open_envelope_unwrap_or_default(sh, encrypted_data) ==
  LET decrypted == recover_secret([i \in 1..Len(sh) |-> sh[i].info])
  IN IF ~decrypted.ok THEN Return("recover", decrypted)
     ELSE LET info == deserialize_info(decrypted.val)
          IN IF ~info.ok THEN Return("info", info)
             ELSE LET plaintext == aes_gcm_decrypt(info.val.key, info.val.nonce,
                                                  encrypted_data)
                  IN IF info.val.hash # Sha3_256_digest(plaintext.val)
                       THEN Return("hash", Err("Hashes do not match"))
                     ELSE Return("ok", Ok(plaintext.val))

\* recover the share info, decrypt the data, compare the hashes
open_envelope(sh, encrypted_data) ==
  LET decrypted == recover_secret([i \in 1..Len(sh) |-> sh[i].info])
  IN IF ~decrypted.ok THEN Return("recover", decrypted)
     ELSE LET info == deserialize_info(decrypted.val)
          IN IF ~info.ok THEN Return("info", info)
             ELSE LET plaintext == aes_gcm_decrypt(info.val.key, info.val.nonce,
                                                  encrypted_data)
                  IN IF ~plaintext.ok
                       THEN Return("decrypt", Err("Decryption failed"))
                     ELSE IF info.val.hash # Sha3_256_digest(plaintext.val)
                       THEN Return("hash", Err("Hashes do not match"))
                     ELSE Return("ok", Ok(plaintext.val))

\* from_shares past the test for an empty input
from_nonempty_shares(inp) ==
  LET sh == deserialize_all(inp)
  IN IF ~sh.ok THEN Return("deserialize", sh)
     ELSE IF Len(sh.val) = 0
       THEN Return("compare", Err("panic: index out of bounds"))
     ELSE IF data_mismatch(sh.val)
       THEN Return("compare", Err("Shares do not match"))
     ELSE open_envelope(sh.val, sh.val[1].data)

\* from_shares without the test for an empty input
from_shares_unguarded(inp) == from_nonempty_shares(inp)

from_shares(inp) ==
  IF Len(inp) = 0 THEN Return("empty", Ok(<<>>))
  ELSE from_nonempty_shares(inp)

(***************************************************************************)
(* main.rs: its three functions repeat wrapper.rs line for line            *)
(***************************************************************************)
create_unverifyable_shares(inp, t, n, random) == create_raw_shares(inp, t, n, random)

create_verifyable_shares(inp, t, n, random) == to_shares(inp, t, n, random)

retrieve_from_shares(inp) == from_shares(inp)

\* Vec::remove(index), index counted from 0
remove(v, index) == SubSeq(v, 1, index) \o SubSeq(v, index + 2, Len(v))

(***************************************************************************)
(* The callers' inputs                                                     *)
(***************************************************************************)
Inputs == {SubSeq(TestData, 1, k) : k \in 0..MaxInputLen}

\* every list of pairwise distinct positions of 1..n, in every order
Selections(n) ==
  {s \in UNION {[1..k -> 1..n] : k \in 0..n} :
     \A i, j \in 1..Len(s) : i # j => s[i] # s[j]}

\* the selections that keep the order of to_shares
OrderedSelections(n) ==
  {s \in Selections(n) : \A i, j \in 1..Len(s) : i < j => s[i] < s[j]}

\* one bit of byte number pos is flipped
flip(bs, pos) == [bs EXCEPT ![pos] = gf_add(bs[pos], 1)]

\* the serialized share less its last byte
truncate(bs) == SubSeq(bs, 1, Len(bs) - 1)

\* the first byte of the data field of a serialized share
DataStart(bs) == 2 * LengthLen + LittleEndianValue(SubSeq(bs, 1, LengthLen)) + 1

NoResult == [ok |-> FALSE, val |-> <<>>, err |-> "not called"]

Init ==
  /\ pc = "start"
  /\ input = <<>>
  /\ threshold = 0
  /\ count = 0
  /\ rng = 0
  /\ shares = NoResult
  /\ given = <<>>
  /\ result = NoResult

\* a caller splits a file
ToShares ==
  /\ pc = "start"
  /\ \E inp \in Inputs, t \in 0..MaxCount, n \in 0..MaxCount, r \in 0..MaxRng :
       /\ input' = inp
       /\ threshold' = t
       /\ count' = n
       /\ rng' = r
       /\ shares' = to_shares(inp, t, n, RngOutcome(r))
  /\ pc' = "split"
  /\ UNCHANGED <<given, result>>

\* the shares a caller holds: none when to_shares failed
Held == IF shares.ok THEN shares.val ELSE <<>>

Recover(list) ==
  /\ given' = list
  /\ result' = from_shares(list)
  /\ pc' = "done"
  /\ UNCHANGED <<input, threshold, count, rng, shares>>

\* a caller recovers from some of the shares, in some order
FromShares ==
  /\ pc = "split"
  /\ \E s \in Selections(Len(Held)) :
       Recover([i \in 1..Len(s) |-> Held[s[i]]])

\* some shares in the order of to_shares, the first or the last ciphertext
\* byte of one of them corrupted
FromSharesCorrupted ==
  /\ pc = "split"
  /\ \E s \in OrderedSelections(Len(Held)) :
       \E c \in 1..Len(s), last \in BOOLEAN :
         Recover([i \in 1..Len(s) |->
                    IF i = c
                      THEN flip(Held[s[i]],
                                IF last THEN Len(Held[s[i]]) ELSE DataStart(Held[s[i]]))
                      ELSE Held[s[i]]])

\* some shares in the order of to_shares, one of them replaced by the share
\* of the same index of another to_shares call on the same input
FromSharesMixed ==
  /\ pc = "split"
  /\ \E s \in OrderedSelections(Len(Held)) :
       \E c \in 1..Len(s) :
         /\ LET r == (rng + 1) % (MaxRng + 1)
                other == to_shares(input, threshold, count, RngOutcome(r))
            IN Recover([i \in 1..Len(s) |->
                          IF i = c THEN other.val[s[i]] ELSE Held[s[i]]])

\* some shares in the order of to_shares, one of them cut short
FromSharesTruncated ==
  /\ pc = "split"
  /\ \E s \in OrderedSelections(Len(Held)) :
       \E c \in 1..Len(s) :
         Recover([i \in 1..Len(s) |->
                    IF i = c THEN truncate(Held[s[i]]) ELSE Held[s[i]]])

(***************************************************************************)
(* main                                                                    *)
(***************************************************************************)
\* let shares = create_verifyable_shares("Test Data Helloa", 3, 5).unwrap();
\* let mut shares2 = shares.clone();
MainCreate ==
  /\ pc = "start"
  /\ \E r \in 0..MaxRng :
       /\ rng' = r
       /\ shares' = create_verifyable_shares(TestData, MainThreshold, MainCount,
                                             RngOutcome(r))
  /\ input' = TestData
  /\ threshold' = MainThreshold
  /\ count' = MainCount
  /\ given' = (IF shares'.ok THEN shares'.val ELSE <<>>)
  /\ pc' = (IF shares'.ok THEN "main_created" ELSE "main_panic")
  /\ UNCHANGED result

\* shares2.remove(1);
MainRemove1 ==
  /\ pc = "main_created"
  /\ given' = remove(given, 1)
  /\ pc' = "main_removed_1"
  /\ UNCHANGED <<input, threshold, count, rng, shares, result>>

\* shares2.remove(3);
MainRemove3 ==
  /\ pc = "main_removed_1"
  /\ given' = remove(given, 3)
  /\ pc' = "main_removed_3"
  /\ UNCHANGED <<input, threshold, count, rng, shares, result>>

\* shares2.remove(0);
MainRemove0 ==
  /\ pc = "main_removed_3"
  /\ given' = remove(given, 0)
  /\ pc' = "main_removed_0"
  /\ UNCHANGED <<input, threshold, count, rng, shares, result>>

\* let retrieved = retrieve_from_shares(shares2).unwrap();
MainRetrieve ==
  /\ pc = "main_removed_0"
  /\ result' = retrieve_from_shares(given)
  /\ pc' = (IF result'.ok THEN "main_retrieved" ELSE "main_panic")
  /\ UNCHANGED <<input, threshold, count, rng, shares, given>>

Next ==
  \/ ToShares
  \/ FromShares
  \/ FromSharesCorrupted
  \/ FromSharesMixed
  \/ FromSharesTruncated
  \/ MainCreate
  \/ MainRemove1
  \/ MainRemove3
  \/ MainRemove0
  \/ MainRetrieve

Spec == Init /\ [][Next]_vars

(***************************************************************************)
(* Properties                                                              *)
(***************************************************************************)
\* from_shares was called with pairwise distinct shares of the to_shares call
GivenIsSelection ==
  /\ pc = "done"
  /\ shares.ok
  /\ \A i \in 1..Len(given) : given[i] \in Range(shares.val)
  /\ \A i, j \in 1..Len(given) : i # j => given[i] # given[j]

\* the index byte of the raw share inside a serialized share
RawIndex(bs) == deserialize_share(bs).val.info[1]

\* the ShareInfo that interpolation over the given shares yields
Interpolated ==
  deserialize_info(
    recover_secret([i \in 1..Len(given) |-> deserialize_share(given[i]).val.info]).val).val

KeyAndNonceIntact ==
  /\ Interpolated.key = rng_key(rng)
  /\ Interpolated.nonce = rng_nonce(rng)

HashIntact == Interpolated.hash = Sha3_256_digest(input)

Rejected == ~result.ok /\ result.err \in {"Hashes do not match", "Decryption failed"}

Recovered == result.ok /\ result.val = input

\* C1: from_shares on any threshold-sized selection of the shares of
\* to_shares(S, t, n), 1 <= t <= n, succeeds and returns exactly S.
RoundTrip ==
  (GivenIsSelection /\ 1 <= threshold /\ threshold <= count
     /\ Len(given) = threshold)
    => Recovered

RoundTripWitness ==
  /\ GivenIsSelection
  /\ threshold = 2 /\ count = 3 /\ Len(given) = 2
  /\ rng = 0
  /\ input # <<>>
  /\ Recovered

\* the serialized ShareInfo that to_shares split
SplitSecret ==
  serialize_info([length |-> Len(input),
                  shares |-> count,
                  hash |-> Sha3_256_digest(input),
                  key |-> rng_key(rng),
                  nonce |-> rng_nonce(rng)])

\* other secrets of the same length: the all-zero record and the ShareInfo
\* of every input under another key and nonce
CandidateSecrets ==
  {[p \in 1..InfoLen |-> 0]}
    \cup {serialize_info([length |-> Len(inp),
                          shares |-> count,
                          hash |-> Sha3_256_digest(inp),
                          key |-> rng_key(rng + 1),
                          nonce |-> rng_nonce(rng + 1)]) : inp \in Inputs}

\* the coefficients of the product of (1 + X / xs[i]) for i in 1..k: the
\* polynomial that is 1 at 0 and 0 at every xs[i]
RECURSIVE VanishingPolynomial(_, _)
VanishingPolynomial(xs, k) ==
  IF k = 0 THEN <<1>>
  ELSE LET d == VanishingPolynomial(xs, k - 1)
           a == gf_div(1, xs[k]).val
       IN [j \in 1..(k + 1) |->
             gf_add(IF j <= k THEN d[j] ELSE 0,
                    IF j >= 2 THEN gf_mul(a, d[j - 1]) ELSE 0)]

\* coefficients under which the secret s2 yields, at the indices of the
\* given shares, the raw shares that were given: the drawn coefficients
\* plus (SplitSecret[p] + s2[p]) times the vanishing polynomial
AlternativeCoefficients(s2) ==
  LET xs == [i \in 1..Len(given) |-> RawIndex(given[i])]
      d == VanishingPolynomial(xs, Len(given))
      drawn == RngOutcome(rng).coefficients
      s1 == SplitSecret
  IN [p \in 1..InfoLen |->
        [j \in 1..254 |->
           IF j + 1 <= Len(d)
             THEN gf_add(drawn[p][j], gf_mul(gf_add(s1[p], s2[p]), d[j + 1]))
             ELSE drawn[p][j]]]

\* the raw shares given are the ones create_raw_shares returns for the
\* secret s2 under the coefficients random
SameRawShares(s2, random) ==
  LET raw == create_raw_shares(s2, threshold, count, random)
  IN /\ raw.ok
     /\ \A p \in 1..InfoLen, j \in 1..(threshold - 1) : random[p][j] \in 0..255
     /\ \A i \in 1..Len(given) :
          LET seen == deserialize_share(given[i]).val.info
          IN /\ Len(seen) > 0
             /\ seen[1] \in 1..Len(raw.val)
             /\ raw.val[seen[1]] = seen

\* C2: the raw shares seen in fewer than threshold shares of one split are
\* equally possible for every candidate secret of the same length: no
\* index seen is 0 (the share of index 0 is the secret), and for each
\* candidate there are coefficients the generator can draw under which
\* create_raw_shares returns exactly those raw shares at those indices.
SecrecyBelowThreshold ==
  (GivenIsSelection /\ Len(given) < threshold)
    => /\ \A i \in 1..Len(given) : RawIndex(given[i]) # 0
       /\ \A s2 \in CandidateSecrets : SameRawShares(s2, AlternativeCoefficients(s2))

SecrecyBelowThresholdWitness ==
  /\ GivenIsSelection
  /\ threshold = 3 /\ count = 3 /\ Len(given) = 2
  /\ rng = 0
  /\ \E s2 \in CandidateSecrets :
       /\ s2 # SplitSecret
       /\ AlternativeCoefficients(s2)[LengthLen + 2][2] # RngOutcome(rng).coefficients[LengthLen + 2][2]
       /\ SameRawShares(s2, AlternativeCoefficients(s2))

\* C3 as claimed: from_shares on any (t-1)-sized selection, 1 <= t <= n,
\* fails with "Hashes do not match" or "Decryption failed".
ThresholdNecessityAsClaimed ==
  (GivenIsSelection /\ 1 <= threshold /\ threshold <= count
     /\ Len(given) = threshold - 1)
    => Rejected

\* C3 amended: for 2 <= t <= n, from_shares on any (t-1)-sized selection
\* fails with "Hashes do not match" or "Decryption failed", unless the
\* hash, key and nonce interpolated from those shares are the original ones
\* (the coefficients drawn cancel), and then it returns S.
ThresholdNecessity ==
  (GivenIsSelection /\ 2 <= threshold /\ threshold <= count
     /\ Len(given) = threshold - 1)
    => IF KeyAndNonceIntact /\ HashIntact THEN Recovered ELSE Rejected

ThresholdNecessityWitness ==
  /\ GivenIsSelection
  /\ threshold = 3 /\ count = 3 /\ Len(given) = 2
  /\ ~KeyAndNonceIntact
  /\ Rejected

\* C4 as claimed: to_shares returns InvalidParameters whenever threshold is
\* 0 or count < threshold, and succeeds only when 1 <= threshold <= count.
ParameterValidation ==
  pc \in {"split", "done"} =>
    /\ (threshold = 0 \/ count < threshold)
         => (~shares.ok /\ shares.err = "InvalidParameters")
    /\ shares.ok => (1 <= threshold /\ threshold <= count)

\* C5: two or more deserializable shares whose data fields are not all
\* byte-identical make from_shares return "Shares do not match", at the
\* comparison, before recovery, decryption and the hash check.
CiphertextMismatch ==
  (/\ pc = "done"
   /\ Len(given) >= 2
   /\ \A i \in 1..Len(given) : deserialize_share(given[i]).ok
   /\ \E i \in 1..Len(given) :
        deserialize_share(given[i]).val.data # deserialize_share(given[1]).val.data)
    => (/\ ~result.ok
        /\ result.err = "Shares do not match"
        /\ result.step = "compare")

CiphertextMismatchWitness ==
  /\ pc = "done"
  /\ threshold = 2 /\ Len(given) = 3
  /\ \A i \in 1..Len(given) : deserialize_share(given[i]).ok
  /\ deserialize_share(given[3]).val.data # deserialize_share(given[1]).val.data
  /\ Len(deserialize_share(given[3]).val.data) = Len(deserialize_share(given[1]).val.data)
  /\ result.err = "Shares do not match"

\* C6 as claimed: at least one but fewer than threshold shares of one
\* to_shares call (threshold <= count) are rejected by the hash comparison.
UnderThresholdErrorAsClaimed ==
  (GivenIsSelection /\ 1 <= Len(given) /\ Len(given) < threshold
     /\ threshold <= count)
    => (~result.ok /\ result.err = "Hashes do not match")

\* C6 amended: on at least one but fewer than threshold shares, from_shares
\* reports "Decryption failed" whenever the interpolated key or nonce is not
\* the one the data was encrypted with (decryption runs before the hash
\* comparison); it reports "Hashes do not match" only when key and nonce are
\* interpolated intact and the hash is not.
UnderThresholdError ==
  (GivenIsSelection /\ 1 <= Len(given) /\ Len(given) < threshold)
    => /\ ~KeyAndNonceIntact
            => (~result.ok /\ result.err = "Decryption failed"
                  /\ result.step = "decrypt")
       /\ (KeyAndNonceIntact /\ ~HashIntact)
            => (~result.ok /\ result.err = "Hashes do not match"
                  /\ result.step = "hash")
       /\ ~result.ok => Rejected

UnderThresholdErrorWitness ==
  /\ GivenIsSelection
  /\ threshold = 3 /\ Len(given) = 1
  /\ ~KeyAndNonceIntact
  /\ result.err = "Decryption failed"

\* C7: a split with threshold >= 1 and count n returns exactly n shares,
\* the i-th carrying index i: the indices are 1..n, nonzero and pairwise
\* distinct.
IndexUniqueness ==
  (pc # "start" /\ threshold >= 1)
    => /\ shares.ok
       /\ Len(shares.val) = count
       /\ \A i \in 1..count : RawIndex(shares.val[i]) = i /\ RawIndex(shares.val[i]) # 0
       /\ \A i, j \in 1..count :
            i # j => RawIndex(shares.val[i]) # RawIndex(shares.val[j])

IndexUniquenessWitness ==
  /\ pc = "split"
  /\ threshold = 2 /\ count = 3
  /\ shares.ok
  /\ <<RawIndex(shares.val[1]), RawIndex(shares.val[2]), RawIndex(shares.val[3])>>
       = <<1, 2, 3>>

\* C8: from_shares on the empty list returns the empty buffer as a success,
\* at its first test.
EmptyInput ==
  (pc = "done" /\ given = <<>>)
    => (result.ok /\ result.val = <<>> /\ result.step = "empty")

EmptyInputWitness ==
  /\ pc = "done"
  /\ given = <<>>
  /\ shares.ok /\ count = 3 /\ input # <<>>
  /\ result.ok /\ result.val = <<>>

\* C9 as claimed: in main two shares have been removed, the three that
\* remain reach the threshold, and retrieve_from_shares returns the input.
DemoScenario ==
  pc \in {"main_retrieved", "main_panic"}
    => /\ Len(given) = MainCount - 2
       /\ Len(given) >= threshold
       /\ pc = "main_retrieved"
       /\ Recovered

\* C10: from_shares on any k pairwise distinct shares of to_shares(S, t, n),
\* 1 <= t <= k <= n, in any order, returns exactly S.
SupersetAndOrder ==
  (GivenIsSelection /\ 1 <= threshold /\ threshold <= Len(given))
    => Recovered

SupersetAndOrderWitness ==
  /\ GivenIsSelection
  /\ threshold = 2 /\ Len(given) = 3
  /\ RawIndex(given[1]) > RawIndex(given[2])
  /\ rng = 0
  /\ input # <<>>
  /\ Recovered
====
